---- MODULE Spec2Model ----
(***************************************************************************)
(* Image provenance verification: per-user key slot (user_profiles),       *)
(* image records (images), blob store, and the client-side upload and      *)
(* verification handlers that are composed from the server actions.        *)
(***************************************************************************)
EXTENDS Integers, Sequences, FiniteSets, TLC

(* ------------------------------ bounds -------------------------------- *)

\* Total number of rows ever inserted into the images table.
MaxImages == 2
\* Total number of key pairs ever generated by generateRSAKeyPair.
MaxKeys == 2
\* Longest string handed to areHashesSimilar in the specification SpecHash.
MaxHashLen == 6
\* Hex characters of a digest (the program's SHA-256 digests have 64).
DigestLen == 8

(* --------------------------- program constants ------------------------ *)

\* areHashesSimilar(hash1, hash2, tolerance = 5)
Tolerance == 5

(* ------------------------------ domains ------------------------------- *)

Users == {"alice", "bob"}
\* The files users select: one image, two edits of it under the same name,
\* and the image under another name.
Files ==
    {[name |-> "photo.png", bytes |-> "B1"], [name |-> "photo.png", bytes |-> "B2"],
     [name |-> "photo.png", bytes |-> "B3"], [name |-> "other.png", bytes |-> "B1"]}

\* A key pair the user made on their own device and loads as a key file;
\* its public half was never given to the server.
ExternalKey == MaxKeys + 1

(* --------------------------- crypto-utils ----------------------------- *)

\* Number of leading hex characters in which the digest of a content differs
\* from the digest of B1: B2 is exactly Tolerance characters away from B1,
\* B3 is Tolerance + 1 characters away.
Flips(bytes) ==
    CASE bytes = "B1" -> 0
      [] bytes = "B2" -> Tolerance
      [] bytes = "B3" -> Tolerance + 1

\* calculateFileHash: digest of the file's bytes only (never name or type),
\* written as DigestLen hex characters (a hex character is its value 0..15).
calculateFileHash(file) ==
    [i \in 1..DigestLen |-> IF i <= Flips(file.bytes) THEN 15 ELSE 0]

\* exportPublicKey: the stored text of the public half of key pair k.
exportPublicKey(k) == [t |-> "spki", k |-> k]
\* The text seeded by the first handle_new_user trigger.
DefaultPublicKey == [t |-> "placeholder", k |-> 0]
\* The text seeded by the second handle_new_user trigger: COALESCE(..., '').
EmptyPublicKey == [t |-> "empty", k |-> 0]
\* No user_profiles row for the user.
NoRow == [t |-> "norow", k |-> 0]

\* A check that looks at the key only.
verifyFileSignatureAnyFile(file, signature, publicKeyString) ==
    signature.k = publicKeyString.k

\* A check that looks at the digest only.
verifyFileSignatureAnyKey(file, signature, publicKeyString) ==
    signature.digest = calculateFileHash(file)

\* signFile: RSA-PSS over the digest of the file's bytes with private key k.
signFile(file, k) == [k |-> k, digest |-> calculateFileHash(file)]

\* importPublicKey: succeeds on the export of a generated key.
ImportsOk(publicKeyString) == publicKeyString.t = "spki"

\* verifyFileSignature: digest of the file handed in, checked against the
\* signature under the imported public key; a mismatch is FALSE, not an error.
verifyFileSignature(file, signature, publicKeyString) ==
    /\ signature.k = publicKeyString.k
    /\ signature.digest = calculateFileHash(file)

(* ------------------------- areHashesSimilar --------------------------- *)

Min(a, b) == IF a <= b THEN a ELSE b
Abs(a) == IF a < 0 THEN 0 - a ELSE a

\* The for loop of areHashesSimilar: differences counted over i < minLength.
RECURSIVE CountDifferences(_, _, _, _)
CountDifferences(hash1, hash2, i, minLength) ==
    IF i > minLength THEN 0
    ELSE (IF hash1[i] /= hash2[i] THEN 1 ELSE 0)
         + CountDifferences(hash1, hash2, i + 1, minLength)

\* The comparison with a strict bound: differences < tolerance.
areHashesSimilarOffByOne(hash1, hash2) ==
    LET minLength == Min(Len(hash1), Len(hash2))
        differences == CountDifferences(hash1, hash2, 1, minLength)
                       + Abs(Len(hash1) - Len(hash2))
    IN  differences < Tolerance

\* areHashesSimilar(hash1, hash2): differences <= tolerance.
areHashesSimilar(hash1, hash2) ==
    LET minLength == Min(Len(hash1), Len(hash2))
        differences == CountDifferences(hash1, hash2, 1, minLength)
                       + Abs(Len(hash1) - Len(hash2))
    IN  differences <= Tolerance


(* ------------------------------- state -------------------------------- *)

VARIABLES
    profiles,     \* user_profiles.public_key per user (NoRow: no row)
    images,       \* rows of the images table
    blobs,        \* paths present in the storage bucket
    nextKey,      \* next key pair generateRSAKeyPair produces
    nextId,       \* next images.id / upload timestamp
    held,         \* private keys delivered to each user's device
    keyOrigin,    \* which operation generated each key pair
    verdict,      \* verificationResult shown by the verify page
    ensureCalls,  \* ensurePublicKeyAction requests in flight
    ensureLog,    \* the last returns of ensurePublicKeyAction
    compare,      \* two fingerprints and the route their comparison takes
    roundTrip     \* a signature, the file and key it is checked with, the answer

vars == <<profiles, images, blobs, nextKey, nextId, held, keyOrigin,
          verdict, ensureCalls, ensureLog, compare, roundTrip>>

KeyIds == 1..MaxKeys

\* The null an action or query returns instead of an images row.
NoImage ==
    [id |-> 0, user_id |-> "", file_name |-> "", hash |-> <<>>,
     signature |-> [k |-> 0, digest |-> <<>>], file_path |-> 0,
     public_url |-> <<>>]

\* No signature under check.
NoRoundTrip ==
    [file |-> [name |-> "", bytes |-> ""], privateKey |-> 0,
     signature |-> [k |-> 0, digest |-> <<>>],
     checked |-> [name |-> "", bytes |-> ""], publicKey |-> NoRow,
     answer |-> "none"]

\* No comparison of fingerprints under way.
NoCompare == [hash1 |-> <<>>, hash2 |-> <<>>, route |-> "none", similar |-> FALSE]

\* verificationResult = null (a file was just selected).
NoVerdict ==
    [user |-> "", file |-> [name |-> "", bytes |-> ""], variant |-> "",
     fault |-> "", isVerified |-> FALSE, message |-> "", owner |-> "",
     details |-> "", recId |-> 0, minor |-> FALSE, calls |-> <<>>,
     byHash |-> "", byName |-> "", keyBefore |-> NoRow, generated |-> 0]

(* --------------------------- record store ----------------------------- *)

\* .single(): exactly one row, or the error PGRST116 (no rows, or several).
Single(rows) ==
    IF Cardinality(rows) = 1
    THEN [data |-> CHOOSE r \in rows : TRUE, error |-> "none"]
    ELSE [data |-> NoImage, error |-> "PGRST116"]

\* The fingerprint query without its user_id filter.
HashRowsAnyOwner(hash, currentUserId) ==
    {r \in images : r.hash = hash}

\* The query of findImageByHashAction: .eq("hash", hash).eq("user_id", id)
HashRows(hash, currentUserId) ==
    {r \in images : r.hash = hash /\ r.user_id = currentUserId}

\* The query of findImageByFileNameAction.
NameRows(fileName, currentUserId) ==
    {r \in images : r.file_name = fileName /\ r.user_id = currentUserId}

\* findImageByHashAction: null without a user id; null on PGRST116; throws
\* on any other store error (dbError).
findImageByHashAction(hash, currentUserId, dbError) ==
    IF currentUserId = "" THEN [ret |-> NoImage, threw |-> FALSE]
    ELSE IF dbError THEN [ret |-> NoImage, threw |-> TRUE]
    ELSE [ret |-> Single(HashRows(hash, currentUserId)).data, threw |-> FALSE]

findImageByFileNameAction(fileName, currentUserId, dbError) ==
    IF currentUserId = "" THEN [ret |-> NoImage, threw |-> FALSE]
    ELSE IF dbError THEN [ret |-> NoImage, threw |-> TRUE]
    ELSE [ret |-> Single(NameRows(fileName, currentUserId)).data, threw |-> FALSE]

(* ----------------------------- key store ------------------------------ *)

\* existingProfile?.public_key && existingProfile.public_key.length > 0
HasPublicKey(p) == p.t \in {"placeholder", "spki"}

\* user_metadata.public_key: nothing in the repository writes it.
UserMetadataPublicKey(userId) == NoRow

\* ensurePublicKeyAction with its read and its write in one step (as it
\* runs inside another handler). saveOk: the upsert succeeded.
EnsureResult(userId, prof, nk, saveOk) ==
    IF HasPublicKey(prof[userId])
    THEN [success |-> TRUE, publicKeyExists |-> TRUE, privateKey |-> 0,
          profiles |-> prof, nextKey |-> nk]
    ELSE IF saveOk
    THEN [success |-> TRUE, publicKeyExists |-> TRUE, privateKey |-> nk,
          profiles |-> [prof EXCEPT ![userId] = exportPublicKey(nk)],
          nextKey |-> nk + 1]
    ELSE [success |-> FALSE, publicKeyExists |-> FALSE, privateKey |-> 0,
          profiles |-> prof, nextKey |-> nk + 1]

\* Whether ensurePublicKeyAction would call generateRSAKeyPair.
EnsureGenerates(userId, prof) == ~HasPublicKey(prof[userId])

\* A read-back that takes the word of ensurePublicKeyAction for it.
ReadBackTrustsEnsure(e, userId) == e.success /\ e.publicKeyExists

\* After the self-healing call: whether getUserPublicKeyAction reads a key
\* for userId back from the profile (ensureResult.success &&
\* ensureResult.publicKeyExists, then newProfileData?.public_key).
ReadBack(e, userId) ==
    e.success /\ e.publicKeyExists /\ HasPublicKey(e.profiles[userId])

\* getUserPublicKeyAction(userId), called in the session of sessionUser.
\* Returns the key text, or throws; the self-healing step and the metadata
\* back-fill write the key store.
getUserPublicKeyAction(userId, sessionUser, prof, nk, fault) ==
    LET unchanged == [profiles |-> prof, nextKey |-> nk, generated |-> 0,
                      ensured |-> 0]
        meta == UserMetadataPublicKey(userId)
    IN
    IF fault = "profileRead"
    THEN [threw |-> TRUE, key |-> NoRow] @@ unchanged
    ELSE IF HasPublicKey(prof[userId])
    THEN [threw |-> FALSE, key |-> prof[userId]] @@ unchanged
    ELSE IF ~HasPublicKey(meta)
    THEN LET e == EnsureResult(sessionUser, prof, nk, fault /= "keySave")
             after == [profiles |-> e.profiles, nextKey |-> e.nextKey,
                       generated |-> e.privateKey, ensured |-> 1]
         IN  IF ReadBack(e, userId)
             THEN [threw |-> FALSE, key |-> e.profiles[userId]] @@ after
             ELSE [threw |-> TRUE, key |-> NoRow] @@ after
    ELSE [threw |-> FALSE, key |-> meta,
          profiles |-> [prof EXCEPT ![userId] = meta], nextKey |-> nk,
          generated |-> 0, ensured |-> 0]

(* --------------------------- verification ----------------------------- *)

\* The server and crypto calls a verification makes, in order.
Trace(hashLooked, nameLooked, keyLooked, imported, verified) ==
    (IF hashLooked THEN <<"findImageByHash">> ELSE <<>>)
    \o (IF nameLooked THEN <<"findImageByFileName">> ELSE <<>>)
    \o (IF keyLooked THEN <<"getUserPublicKey">> ELSE <<>>)
    \o (IF imported THEN <<"importPublicKey">> ELSE <<>>)
    \o (IF verified THEN <<"verifyFileSignature">> ELSE <<>>)

\* A catch block that reports what it caught as a verified image.
CatchResultFailsOpen(innerCatch, owner) ==
    [isVerified |-> TRUE, message |-> "Image Verified Successfully",
     details |-> "authentic", owner |-> owner]

\* The result a catch block of verifyImage sets: the inner one, around the
\* key retrieval, the import and the signature check of the verify page, or
\* the outer one around the whole handler.
CatchResult(innerCatch, owner) ==
    [isVerified |-> FALSE,
     message |-> IF innerCatch THEN "Key Verification Error"
                 ELSE "Verification Error",
     details |-> "error.message",
     owner |-> IF innerCatch THEN owner ELSE ""]

\* The key resolution, import and signature check on a record that was
\* found: the part of a verdict they decide, and the key store they leave.
\* innerCatch: the page wraps this part in its own try/catch.
SignatureCheck(file, rec, currentUserId, fault, imports, innerCatch) ==
    LET g == getUserPublicKeyAction(rec.user_id, currentUserId, profiles,
                                    nextKey, fault)
        store == [profiles |-> g.profiles, nextKey |-> g.nextKey,
                  generated |-> g.generated]
        importOk == ImportsOk(g.key) \/ (g.key.t = "placeholder" /\ imports)
    IN
    IF ~g.threw /\ ~HasPublicKey(g.key) /\ innerCatch
    THEN \* if (!publicKeyString)
         [isVerified |-> FALSE, message |-> "Verification Error",
          details |-> "The image exists but cannot be verified.",
          owner |-> rec.user_id, keyCalls |-> 1] @@ store
    ELSE IF g.threw \/ ~HasPublicKey(g.key) \/ ~importOk
    THEN CatchResult(innerCatch, rec.user_id) @@
         [keyCalls |-> IF g.threw \/ ~HasPublicKey(g.key) THEN 1 ELSE 2] @@ store
    ELSE IF fault = "signature"
    THEN \* verifyFileSignature throws
         CatchResult(innerCatch, rec.user_id) @@ [keyCalls |-> 3] @@ store
    ELSE IF verifyFileSignature(file, rec.signature, g.key)
    THEN [isVerified |-> TRUE, message |-> "Image Verified Successfully",
          details |-> "authentic", owner |-> rec.user_id, keyCalls |-> 3] @@ store
    ELSE [isVerified |-> FALSE, message |-> "Signature Verification Failed",
          details |-> "signature verification failed",
          owner |-> rec.user_id, keyCalls |-> 3] @@ store

\* What a verification that never reaches a key leaves of the key store.
KeyStoreUntouched ==
    [profiles |-> profiles, nextKey |-> nextKey, generated |-> 0, keyCalls |-> 0]

\* A comparison that sends every record found by name to the signature check.
NameFallbackRouteAlwaysChecks(fileHash, storedHash) == "SignatureCheck"

\* The comparison of the fresh fingerprint with the one of a record found by
\* name: TRUE routes to the signature check, FALSE to "Image Has Been Modified".
NameFallbackRoute(fileHash, storedHash) ==
    IF areHashesSimilar(fileHash, storedHash)
    THEN "SignatureCheck" ELSE "ContentModified"

\* verifyImage of the verify page: fingerprint first, file name as fallback.
VerifyFingerprintFirst(currentUserId, file, fault, imports) ==
    LET fileHash == calculateFileHash(file)
        h == findImageByHashAction(fileHash, currentUserId, fault = "hashLookup")
        n == findImageByFileNameAction(file.name, currentUserId, fault = "nameLookup")
        found == IF h.ret /= NoImage THEN h.ret ELSE n.ret
        route == IF h.ret /= NoImage THEN "SignatureCheck"
                 ELSE NameFallbackRoute(fileHash, n.ret.hash)
        sc == SignatureCheck(file, found, currentUserId, fault, imports, TRUE)
        base == [user |-> currentUserId, file |-> file,
                 variant |-> "fingerprintFirst", fault |-> fault,
                 keyBefore |-> profiles[currentUserId]]
    IN
    IF fault = "hash"
    THEN \* calculateFileHash throws
         base @@ KeyStoreUntouched @@ CatchResult(FALSE, "") @@
         [recId |-> 0, minor |-> FALSE, byHash |-> "skipped",
          byName |-> "skipped", calls |-> <<>>]
    ELSE IF h.threw
    THEN base @@ KeyStoreUntouched @@ CatchResult(FALSE, "") @@
         [recId |-> 0, minor |-> FALSE, byHash |-> "threw", byName |-> "skipped",
          calls |-> Trace(TRUE, FALSE, FALSE, FALSE, FALSE)]
    ELSE IF h.ret = NoImage /\ n.threw
    THEN base @@ KeyStoreUntouched @@ CatchResult(FALSE, "") @@
         [recId |-> 0, minor |-> FALSE, byHash |-> "miss", byName |-> "threw",
          calls |-> Trace(TRUE, TRUE, FALSE, FALSE, FALSE)]
    ELSE IF h.ret = NoImage /\ n.ret = NoImage
    THEN base @@ KeyStoreUntouched @@
         [isVerified |-> FALSE, message |-> "Image Not Found", owner |-> "",
          details |-> "not registered",
          recId |-> 0, minor |-> FALSE, byHash |-> "miss", byName |-> "miss",
          calls |-> Trace(TRUE, TRUE, FALSE, FALSE, FALSE)]
    ELSE IF route = "ContentModified"
    THEN base @@ KeyStoreUntouched @@
         [isVerified |-> FALSE, message |-> "Image Has Been Modified",
          details |-> "content has been modified",
          owner |-> found.user_id, recId |-> found.id, minor |-> FALSE,
          byHash |-> "miss", byName |-> "hit",
          calls |-> Trace(TRUE, TRUE, FALSE, FALSE, FALSE)]
    ELSE [recId |-> found.id,
          minor |-> (h.ret = NoImage /\ sc.isVerified),
          byHash |-> IF h.ret = NoImage THEN "miss" ELSE "hit",
          byName |-> IF h.ret = NoImage THEN "hit" ELSE "skipped",
          calls |-> Trace(TRUE, h.ret = NoImage, TRUE, sc.keyCalls >= 2,
                          sc.keyCalls >= 3)] @@ base @@ sc

\* verifyImage of the other verify page: file name first, fingerprint as
\* fallback, no tolerance and one try/catch around the whole handler.
VerifyNameFirst(currentUserId, file, fault, imports) ==
    LET fileHash == calculateFileHash(file)
        n == findImageByFileNameAction(file.name, currentUserId, fault = "nameLookup")
        h == findImageByHashAction(fileHash, currentUserId, fault = "hashLookup")
        found == IF n.ret /= NoImage THEN n.ret ELSE h.ret
        sc == SignatureCheck(file, found, currentUserId, fault, imports, FALSE)
        base == [user |-> currentUserId, file |-> file,
                 variant |-> "nameFirst", fault |-> fault,
                 keyBefore |-> profiles[currentUserId]]
    IN
    IF fault = "hash"
    THEN \* calculateFileHash throws
         base @@ KeyStoreUntouched @@ CatchResult(FALSE, "") @@
         [recId |-> 0, minor |-> FALSE, byHash |-> "skipped",
          byName |-> "skipped", calls |-> <<>>]
    ELSE IF n.threw
    THEN base @@ KeyStoreUntouched @@ CatchResult(FALSE, "") @@
         [recId |-> 0, minor |-> FALSE, byHash |-> "skipped", byName |-> "threw",
          calls |-> <<"findImageByFileName">>]
    ELSE IF n.ret = NoImage /\ h.threw
    THEN base @@ KeyStoreUntouched @@ CatchResult(FALSE, "") @@
         [recId |-> 0, minor |-> FALSE, byHash |-> "threw", byName |-> "miss",
          calls |-> <<"findImageByFileName", "findImageByHash">>]
    ELSE IF n.ret = NoImage /\ h.ret = NoImage
    THEN base @@ KeyStoreUntouched @@
         [isVerified |-> FALSE, message |-> "Verification Failed", owner |-> "",
          details |-> "not registered",
          recId |-> 0, minor |-> FALSE, byHash |-> "miss", byName |-> "miss",
          calls |-> <<"findImageByFileName", "findImageByHash">>]
    ELSE IF n.ret /= NoImage /\ n.ret.hash /= fileHash
    THEN base @@ KeyStoreUntouched @@
         [isVerified |-> FALSE, message |-> "Image Has Been Modified",
          details |-> "content has been modified",
          owner |-> "", recId |-> found.id, minor |-> FALSE,
          byHash |-> "skipped", byName |-> "hit",
          calls |-> <<"findImageByFileName">>]
    ELSE [owner |-> "", recId |-> found.id, minor |-> FALSE,
          byHash |-> IF n.ret = NoImage THEN "hit" ELSE "skipped",
          byName |-> IF n.ret = NoImage THEN "miss" ELSE "hit",
          calls |-> (IF n.ret = NoImage
                     THEN <<"findImageByFileName", "findImageByHash">>
                     ELSE <<"findImageByFileName">>)
                    \o Trace(FALSE, FALSE, TRUE, sc.keyCalls >= 2,
                             sc.keyCalls >= 3)] @@ base @@ sc

\* setVerificationResult: the fields of the result the page keeps.
VerificationResult(r) ==
    [user |-> r.user, file |-> r.file, variant |-> r.variant, fault |-> r.fault,
     isVerified |-> r.isVerified, message |-> r.message,
     details |-> r.details, owner |-> r.owner,
     recId |-> r.recId, minor |-> r.minor, calls |-> r.calls,
     byHash |-> r.byHash, byName |-> r.byName, keyBefore |-> r.keyBefore,
     generated |-> r.generated]

Faults ==
    {"none", "hash", "hashLookup", "nameLookup", "profileRead", "keySave",
     "signature"}

(* ------------------------------ actions ------------------------------- *)

Init ==
    /\ profiles \in [Users -> {EmptyPublicKey, DefaultPublicKey}]
    /\ images = {}
    /\ blobs = {}
    /\ nextKey = 1
    /\ nextId = 1
    /\ held = [u \in Users |-> {}]
    /\ keyOrigin = [k \in KeyIds |-> "none"]
    /\ verdict = NoVerdict
    /\ ensureCalls = [s \in {"s1", "s2"} |->
                        [pc |-> "idle", user |-> "", before |-> NoRow,
                         overlapped |-> FALSE]]
    /\ ensureLog = <<>>
    /\ compare = NoCompare
    /\ roundTrip = NoRoundTrip

Slots == DOMAIN ensureCalls

\* The private keys a user can load on the upload page: the downloaded
\* ones, or one made outside the system.
Loadable(u) == held[u] \cup {ExternalKey}

\* handleFileChange of the verify page: selecting a file clears the result.
HandleFileChange ==
    /\ verdict /= NoVerdict
    /\ verdict' = NoVerdict
    /\ UNCHANGED <<profiles, images, blobs, nextKey, nextId, held, keyOrigin,
                   ensureCalls, ensureLog, compare, roundTrip>>

\* verifyImage (fingerprint first) for the file selected by user u.
VerifyImage(u, file, fault, imports) ==
    LET r == VerifyFingerprintFirst(u, file, fault, imports) IN
    /\ verdict = NoVerdict
    /\ r.nextKey <= MaxKeys + 1
    /\ verdict' = VerificationResult(r)
    /\ profiles' = r.profiles
    /\ nextKey' = r.nextKey
    /\ keyOrigin' = IF r.generated = 0 THEN keyOrigin
                    ELSE [keyOrigin EXCEPT ![r.generated] = "selfheal"]
    /\ UNCHANGED <<images, blobs, nextId, held, ensureCalls, ensureLog, compare,
                   roundTrip>>

\* verifyImage (file name first) for the file selected by user u.
VerifyImageNameFirst(u, file, fault, imports) ==
    LET r == VerifyNameFirst(u, file, fault, imports) IN
    /\ verdict = NoVerdict
    /\ r.nextKey <= MaxKeys + 1
    /\ verdict' = VerificationResult(r)
    /\ profiles' = r.profiles
    /\ nextKey' = r.nextKey
    /\ keyOrigin' = IF r.generated = 0 THEN keyOrigin
                    ELSE [keyOrigin EXCEPT ![r.generated] = "selfheal"]
    /\ UNCHANGED <<images, blobs, nextId, held, ensureCalls, ensureLog, compare,
                   roundTrip>>

\* checkPublicKey of the upload page: ensurePublicKeyAction, and the download
\* of the private key it returns.
EnsurePublicKey(u, saveOk) ==
    LET e == EnsureResult(u, profiles, nextKey, saveOk) IN
    /\ verdict = NoVerdict
    /\ e.nextKey <= MaxKeys + 1
    /\ profiles' = e.profiles
    /\ nextKey' = e.nextKey
    /\ held' = IF e.privateKey = 0 THEN held
               ELSE [held EXCEPT ![u] = @ \cup {e.privateKey}]
    /\ keyOrigin' = IF e.privateKey = 0 THEN keyOrigin
                    ELSE [keyOrigin EXCEPT ![e.privateKey] = "ensure"]
    /\ UNCHANGED <<images, blobs, nextId, verdict, ensureCalls, ensureLog, compare,
                   roundTrip>>

\* The addresses under which the storage can serve its bucket: the one
\* configured when the images were uploaded, and a later one.
StorageBases == {"base", "moved"}

\* getPublicUrl: the address of the storage followed by the path.
getPublicUrl(base, filePath) == <<base, filePath>>

\* The images row an upload inserts.
ImageRow(u, file, k) ==
    [id |-> nextId, user_id |-> u, file_name |-> file.name,
     hash |-> calculateFileHash(file), signature |-> signFile(file, k),
     file_path |-> nextId, public_url |-> getPublicUrl("base", nextId)]

\* handleUpload of the upload page with private key k loaded: ensure the
\* public key, hash, sign, uploadFileToStorage, uploadImageMetadata.
\* outcome: which step fails, if any ("abandoned": the page is left after
\* the signing, before the file is sent to the storage).
HandleUpload(u, file, k, outcome) ==
    LET e == EnsureResult(u, profiles, nextKey, outcome /= "keySave")
        signed == e.success /\ outcome /= "sign"
        stored == signed /\ outcome \notin {"storage", "abandoned"}
        inserted == stored /\ outcome /= "metadata"
    IN
    /\ verdict = NoVerdict
    /\ k \in Loadable(u)
    /\ nextId <= MaxImages
    /\ e.nextKey <= MaxKeys + 1
    /\ outcome = "keySave" => EnsureGenerates(u, profiles)
    /\ profiles' = e.profiles
    /\ nextKey' = e.nextKey
    /\ keyOrigin' = IF e.privateKey = 0 THEN keyOrigin
                    ELSE [keyOrigin EXCEPT ![e.privateKey] = "upload"]
    /\ blobs' = IF stored THEN blobs \cup {nextId} ELSE blobs
    /\ images' = IF inserted THEN images \cup {ImageRow(u, file, k)} ELSE images
    /\ nextId' = IF stored THEN nextId + 1 ELSE nextId
    /\ UNCHANGED <<held, verdict, ensureCalls, ensureLog, compare, roundTrip>>

\* uploadImage of supabase-utils: storage upload, then the insert; signature
\* and hash are the caller's.
UploadImage(u, file, k, outcome) ==
    LET stored == outcome /= "storage"
        inserted == stored /\ outcome /= "metadata"
    IN
    /\ verdict = NoVerdict
    /\ k \in Loadable(u)
    /\ nextId <= MaxImages
    /\ outcome /= "keySave"
    /\ blobs' = IF stored THEN blobs \cup {nextId} ELSE blobs
    /\ images' = IF inserted THEN images \cup {ImageRow(u, file, k)} ELSE images
    /\ nextId' = IF stored THEN nextId + 1 ELSE nextId
    /\ UNCHANGED <<profiles, nextKey, held, keyOrigin, verdict, ensureCalls,
                   ensureLog, compare, roundTrip>>

\* const maxUploadAttempts = 3
maxUploadAttempts == 3

\* What one storage attempt can do: store the file, return an error, throw.
AttemptResults == {"ok", "error", "throw"}

\* The retry loop of uploadImage from attempt i on. uploadError is assigned
\* only when an attempt returns; a throw is caught and counted. made: the
\* attempts made.
RECURSIVE UploadAttempts(_, _, _)
UploadAttempts(attempts, i, uploadError) ==
    IF i > maxUploadAttempts
    THEN [made |-> maxUploadAttempts, uploadError |-> uploadError,
          stored |-> FALSE]
    ELSE IF attempts[i] = "ok"
    THEN [made |-> i, uploadError |-> "null", stored |-> TRUE]
    ELSE IF attempts[i] = "error"
    THEN UploadAttempts(attempts, i + 1, "error")
    ELSE UploadAttempts(attempts, i + 1, uploadError)

\* uploadImage of use-toast: the storage attempts, the test of uploadError,
\* the public URL, the insert, and the removal of the blob when the insert
\* fails. attempts: what each storage attempt does. outcome: "publicUrl" (no
\* valid URL), "metadata" (the insert failed). cleanupOk: the removal of the
\* blob took effect.
UploadImageWithRetry(u, file, k, attempts, outcome, cleanupOk) ==
    LET up == UploadAttempts(attempts, 1, "undefined")
        proceeds == up.uploadError /= "error"
        inserted == proceeds /\ outcome = "ok"
        removed == proceeds /\ outcome = "metadata" /\ cleanupOk
    IN
    /\ verdict = NoVerdict
    /\ k \in Loadable(u)
    /\ nextId <= MaxImages
    /\ outcome /= "metadata" => cleanupOk
    /\ blobs' = IF up.stored /\ ~removed THEN blobs \cup {nextId} ELSE blobs
    /\ images' = IF inserted THEN images \cup {ImageRow(u, file, k)} ELSE images
    /\ nextId' = IF up.stored \/ inserted THEN nextId + 1 ELSE nextId
    /\ UNCHANGED <<profiles, nextKey, held, keyOrigin, verdict, ensureCalls,
                   ensureLog, compare, roundTrip>>

\* deleteImage(imageId, userId): read the row, remove the blob, delete the
\* row. outcome: which step fails, if any.
DeleteImage(u, imageId, outcome) ==
    LET rows == {r \in images : r.id = imageId /\ r.user_id = u}
        row == Single(rows)
    IN
    /\ verdict = NoVerdict
    /\ row.error = "none"
    /\ blobs' = IF outcome = "storage" THEN blobs
                ELSE blobs \ {row.data.file_path}
    /\ images' = IF outcome = "ok" THEN images \ rows ELSE images
    /\ UNCHANGED <<profiles, nextKey, nextId, held, keyOrigin, verdict,
                   ensureCalls, ensureLog, compare, roundTrip>>

\* An update that moves the record to the address it was given.
UrlUpdateMovesFile(row, publicUrl) ==
    [row EXCEPT !.public_url = publicUrl, !.file_path = publicUrl[2] + 1]

\* .update({ public_url: urlData.publicUrl }) on one row.
UrlUpdate(row, publicUrl) == [row EXCEPT !.public_url = publicUrl]

\* validateImageUrl(imageId): read the row by id, look for its file in the
\* storage, build a fresh URL and write it to the row when it differs.
\* base: the address the storage answers with. updateOk: the update took
\* effect (its failure is only logged).
ValidateImageUrl(imageId, base, updateOk) ==
    LET row == Single({r \in images : r.id = imageId})
        fileExists == row.data.file_path \in blobs
        publicUrl == getPublicUrl(base, row.data.file_path)
    IN
    /\ verdict = NoVerdict
    /\ row.error = "none"
    /\ images' = IF fileExists /\ publicUrl /= row.data.public_url /\ updateOk
                 THEN (images \ {row.data}) \cup {UrlUpdate(row.data, publicUrl)}
                 ELSE images
    /\ UNCHANGED <<profiles, blobs, nextKey, nextId, held, keyOrigin, verdict,
                   ensureCalls, ensureLog, compare, roundTrip>>

\* A regeneration that writes only where no real key is stored.
RegenerateWriteKeepsReal(current, publicKeyString) ==
    IF current.t = "spki" THEN current ELSE publicKeyString

\* The stored text after the write of regenerateKeysAction: update of the
\* row when there is one, insert otherwise.
RegenerateWrite(current, publicKeyString) == publicKeyString

\* regenerateKeysAction: a new pair, the public half written over the stored
\* one (update or insert), the private half returned on success.
RegenerateKeys(u, saveOk) ==
    /\ verdict = NoVerdict
    /\ nextKey <= MaxKeys
    /\ nextKey' = nextKey + 1
    /\ profiles' = IF saveOk
                   THEN [profiles EXCEPT ![u] =
                            RegenerateWrite(@, exportPublicKey(nextKey))]
                   ELSE profiles
    /\ held' = IF saveOk THEN [held EXCEPT ![u] = @ \cup {nextKey}] ELSE held
    /\ keyOrigin' = IF saveOk THEN [keyOrigin EXCEPT ![nextKey] = "regenerate"]
                    ELSE keyOrigin
    /\ ensureLog' = <<>>
    /\ UNCHANGED <<images, blobs, nextId, verdict, ensureCalls, compare, roundTrip>>

\* The store answers every request of these behaviours; the faults of the
\* store are inputs of the actions above.
Next ==
    \/ HandleFileChange
    \/ \E u \in Users, file \in Files, imports \in BOOLEAN :
          VerifyImage(u, file, "none", imports)
    \/ \E u \in Users, file \in Files, imports \in BOOLEAN :
          VerifyImageNameFirst(u, file, "none", imports)
    \/ \E u \in Users : EnsurePublicKey(u, TRUE)
    \/ \E u \in Users, file \in Files, k \in KeyIds \cup {ExternalKey} :
          HandleUpload(u, file, k, "ok")
    \/ \E u \in Users, file \in Files, k \in KeyIds \cup {ExternalKey} :
          UploadImage(u, file, k, "ok")
    \/ \E u \in Users, imageId \in 1..MaxImages : DeleteImage(u, imageId, "ok")
    \/ \E u \in Users : RegenerateKeys(u, TRUE)

Spec == Init /\ [][Next]_vars

\* The verify pages when a step of the verification can fail: the hashing,
\* a record lookup, the read of the key profile, the write of a self-healed
\* key, the import of the key, the signature check.
NextFaults ==
    \/ HandleFileChange
    \/ \E u \in Users, file \in Files, fault \in Faults, imports \in BOOLEAN :
          VerifyImage(u, file, fault, imports)
    \/ \E u \in Users, file \in Files, fault \in Faults, imports \in BOOLEAN :
          VerifyImageNameFirst(u, file, fault, imports)
    \/ \E u \in Users : EnsurePublicKey(u, TRUE)
    \/ \E u \in Users, file \in Files, k \in KeyIds \cup {ExternalKey} :
          HandleUpload(u, file, k, "ok")
    \/ \E u \in Users, file \in Files, k \in KeyIds \cup {ExternalKey} :
          UploadImage(u, file, k, "ok")

SpecFaults == Init /\ [][NextFaults]_vars

\* The life of the records: uploads, verifications, refreshes of the URL
\* and deletions, a deletion failing at either of its writes.
NextRecords ==
    \/ HandleFileChange
    \/ \E u \in Users, file \in Files, imports \in BOOLEAN :
          VerifyImage(u, file, "none", imports)
    \/ \E u \in Users, file \in Files, imports \in BOOLEAN :
          VerifyImageNameFirst(u, file, "none", imports)
    \/ \E u \in Users, file \in Files, k \in KeyIds \cup {ExternalKey} :
          HandleUpload(u, file, k, "ok")
    \/ \E imageId \in 1..MaxImages, base \in StorageBases, updateOk \in BOOLEAN :
          ValidateImageUrl(imageId, base, updateOk)
    \/ \E u \in Users, imageId \in 1..MaxImages,
          outcome \in {"ok", "storage", "database"} :
          DeleteImage(u, imageId, outcome)

SpecRecords == Init /\ [][NextRecords]_vars

\* The uploads when a step of theirs can fail.
NextUpload ==
    \/ \E u \in Users : EnsurePublicKey(u, TRUE)
    \/ \E u \in Users, file \in Files, k \in KeyIds \cup {ExternalKey},
          outcome \in {"ok", "keySave", "sign", "storage", "metadata",
                       "abandoned"} :
          HandleUpload(u, file, k, outcome)
    \/ \E u \in Users, file \in Files, k \in KeyIds \cup {ExternalKey},
          outcome \in {"ok", "storage", "metadata"} :
          UploadImage(u, file, k, outcome)
    \/ \E u \in Users, file \in Files, k \in KeyIds \cup {ExternalKey},
          attempts \in [1..maxUploadAttempts -> AttemptResults],
          outcome \in {"ok", "publicUrl", "metadata"}, cleanupOk \in BOOLEAN :
          UploadImageWithRetry(u, file, k, attempts, outcome, cleanupOk)

SpecUpload == Init /\ [][NextUpload]_vars

(* ------------- ensurePublicKeyAction, request by request --------------- *)

\* One return of ensurePublicKeyAction, as the log keeps it.
LogEntry(u, before, after, privateKey, exists, success, overlapped) ==
    [user |-> u, before |-> before, after |-> after,
     privateKey |-> privateKey, publicKeyExists |-> exists,
     success |-> success, overlapped |-> overlapped]

\* The log keeps the last two returns.
Logged(entry) ==
    IF Len(ensureLog) < 2 THEN Append(ensureLog, entry)
    ELSE <<ensureLog[2], entry>>

InFlight(s) == ensureCalls[s].pc = "generate"

\* A request that starts while others are in flight overlaps them.
MarkOverlaps(calls) ==
    [s \in DOMAIN calls |->
        IF calls[s].pc = "generate" THEN [calls[s] EXCEPT !.overlapped = TRUE]
        ELSE calls[s]]

\* ensurePublicKeyAction up to its read of the profile: returns at once when
\* a public key is stored, otherwise goes on to generate.
EnsureBegin(s, u) ==
    LET others == \E o \in Slots : InFlight(o) IN
    /\ ~InFlight(s)
    /\ IF HasPublicKey(profiles[u])
       THEN /\ ensureLog' = Logged(LogEntry(u, profiles[u], profiles[u], 0, TRUE, TRUE,
                                            others))
            /\ ensureCalls' = MarkOverlaps(ensureCalls)
       ELSE /\ ensureCalls' = [MarkOverlaps(ensureCalls) EXCEPT ![s] =
                   [pc |-> "generate", user |-> u, before |-> profiles[u],
                    overlapped |-> others]]
            /\ ensureLog' = ensureLog
    /\ UNCHANGED <<profiles, images, blobs, nextKey, nextId, held, keyOrigin,
                   verdict, compare, roundTrip>>

\* An upsert that stores the private half of the pair.
EnsureUpsertStoresPrivate(current, publicKeyString) ==
    [t |-> "jwk", k |-> publicKeyString.k]

\* An upsert that leaves the stored text as it was.
EnsureUpsertKeepsCurrent(current, publicKeyString) == current

\* The stored text after the upsert of ensurePublicKeyAction
\* (onConflict: "user_id": the row of the user is overwritten).
EnsureUpsert(current, publicKeyString) == publicKeyString

\* ensurePublicKeyAction from generateRSAKeyPair on: upsert of the public
\* half, read back, return of the private half.
EnsureFinish(s, saveOk) ==
    LET c == ensureCalls[s]
        u == c.user
        written == EnsureUpsert(profiles[u], exportPublicKey(nextKey))
    IN
    /\ InFlight(s)
    /\ nextKey <= MaxKeys
    /\ nextKey' = nextKey + 1
    /\ profiles' = IF saveOk THEN [profiles EXCEPT ![u] = written] ELSE profiles
    /\ held' = IF saveOk THEN [held EXCEPT ![u] = @ \cup {nextKey}] ELSE held
    /\ keyOrigin' = IF saveOk THEN [keyOrigin EXCEPT ![nextKey] = "ensure"]
                    ELSE keyOrigin
    /\ ensureLog' = Logged(LogEntry(u, c.before,
                                    IF saveOk THEN written ELSE profiles[u],
                                    IF saveOk THEN nextKey ELSE 0,
                                    saveOk, saveOk, c.overlapped))
    /\ ensureCalls' = [ensureCalls EXCEPT ![s] =
                          [pc |-> "idle", user |-> "", before |-> NoRow,
                           overlapped |-> FALSE]]
    /\ UNCHANGED <<images, blobs, nextId, verdict, compare, roundTrip>>

InitKeys ==
    /\ profiles \in [Users -> {NoRow, EmptyPublicKey, DefaultPublicKey}]
    /\ images = {}
    /\ blobs = {}
    /\ nextKey = 1
    /\ nextId = 1
    /\ held = [u \in Users |-> {}]
    /\ keyOrigin = [k \in KeyIds |-> "none"]
    /\ verdict = NoVerdict
    /\ ensureCalls = [s \in {"s1", "s2"} |->
                        [pc |-> "idle", user |-> "", before |-> NoRow,
                         overlapped |-> FALSE]]
    /\ ensureLog = <<>>
    /\ compare = NoCompare
    /\ roundTrip = NoRoundTrip

NextKeys ==
    \/ \E s \in Slots, u \in Users : EnsureBegin(s, u)
    \/ \E s \in Slots, saveOk \in BOOLEAN : EnsureFinish(s, saveOk)
    \/ \E u \in Users, saveOk \in BOOLEAN : RegenerateKeys(u, saveOk)

SpecKeys == InitKeys /\ [][NextKeys]_vars

(* ------------------ the operations on the key slot --------------------- *)

\* A test that takes the empty key for the placeholder as well.
IsDefaultKeyOrEmpty(publicKey) == publicKey.t \in {"placeholder", "empty"}

\* isDefaultKey: profileData.public_key.startsWith(the placeholder's prefix)
IsDefaultKey(publicKey) == publicKey = DefaultPublicKey

\* generateInitialKeysAction for user u: what it returns and the key store
\* it leaves. No row: .single() fails and the action reports failure. A key
\* that is not the placeholder: "User already has a key pair". The
\* placeholder: a new pair, the update of the row (saveOk: it succeeded),
\* the private half returned.
GenerateInitialKeysResult(u, prof, nk, saveOk) ==
    IF prof[u] = NoRow
    THEN [success |-> FALSE, privateKey |-> 0, profiles |-> prof, nextKey |-> nk]
    ELSE IF ~IsDefaultKey(prof[u])
    THEN [success |-> TRUE, privateKey |-> 0, profiles |-> prof, nextKey |-> nk]
    ELSE IF saveOk
    THEN [success |-> TRUE, privateKey |-> nk,
          profiles |-> [prof EXCEPT ![u] = exportPublicKey(nk)],
          nextKey |-> nk + 1]
    ELSE [success |-> FALSE, privateKey |-> 0, profiles |-> prof,
          nextKey |-> nk + 1]

\* generateInitialKeysAction called from the dashboard of user u, and the
\* download of the private key it returns.
GenerateInitialKeys(u, saveOk) ==
    LET g == GenerateInitialKeysResult(u, profiles, nextKey, saveOk) IN
    /\ verdict = NoVerdict
    /\ g.nextKey <= MaxKeys + 1
    /\ nextKey' = g.nextKey
    /\ profiles' = g.profiles
    /\ held' = IF g.privateKey = 0 THEN held
               ELSE [held EXCEPT ![u] = @ \cup {g.privateKey}]
    /\ keyOrigin' = IF g.privateKey = 0 THEN keyOrigin
                    ELSE [keyOrigin EXCEPT ![g.privateKey] = "initial"]
    /\ UNCHANGED <<images, blobs, nextId, verdict, ensureCalls, ensureLog, compare,
                   roundTrip>>

\* debugUserProfile: when the profile has no key, copies the key of the user
\* metadata into it, if there is one.
DebugUserProfile(u) ==
    LET metadataPublicKey == UserMetadataPublicKey(u) IN
    /\ verdict = NoVerdict
    /\ profiles' = IF ~HasPublicKey(profiles[u]) /\ HasPublicKey(metadataPublicKey)
                   THEN [profiles EXCEPT ![u] = metadataPublicKey]
                   ELSE profiles
    /\ UNCHANGED <<images, blobs, nextKey, nextId, held, keyOrigin, verdict,
                   ensureCalls, ensureLog, compare, roundTrip>>

\* saveUserPublicKeyAction(userId, publicKey) as the register page calls it:
\* with the public half of a pair made on the device; update of the row when
\* there is one, insert otherwise.
SaveUserPublicKey(userId, saveOk) ==
    /\ verdict = NoVerdict
    /\ nextKey <= MaxKeys
    /\ nextKey' = nextKey + 1
    /\ profiles' = IF saveOk
                   THEN [profiles EXCEPT ![userId] = exportPublicKey(nextKey)]
                   ELSE profiles
    /\ held' = IF saveOk THEN [held EXCEPT ![userId] = @ \cup {nextKey}] ELSE held
    /\ keyOrigin' = [keyOrigin EXCEPT ![nextKey] = "register"]
    /\ UNCHANGED <<images, blobs, nextId, verdict, ensureCalls, ensureLog, compare,
                   roundTrip>>

\* saveUserPublicKeyAction(userId, publicKey) called by a signed-in user
\* with the id of any user and the public half of a pair of their own: the
\* action takes the id from its argument and writes with the service role.
SaveUserPublicKeyFor(sessionUser, userId, saveOk) ==
    /\ verdict = NoVerdict
    /\ sessionUser /= userId
    /\ nextKey <= MaxKeys
    /\ nextKey' = nextKey + 1
    /\ profiles' = IF saveOk
                   THEN [profiles EXCEPT ![userId] = exportPublicKey(nextKey)]
                   ELSE profiles
    /\ held' = [held EXCEPT ![sessionUser] = @ \cup {nextKey}]
    /\ keyOrigin' = [keyOrigin EXCEPT ![nextKey] = "register"]
    /\ UNCHANGED <<images, blobs, nextId, verdict, ensureCalls, ensureLog, compare,
                   roundTrip>>

\* getUserPublicKeyAction(userId) on its own, in the session of sessionUser.
ResolvePublicKey(userId, sessionUser, fault) ==
    LET g == getUserPublicKeyAction(userId, sessionUser, profiles, nextKey, fault) IN
    /\ verdict = NoVerdict
    /\ g.nextKey <= MaxKeys + 1
    /\ profiles' = g.profiles
    /\ nextKey' = g.nextKey
    /\ keyOrigin' = IF g.generated = 0 THEN keyOrigin
                    ELSE [keyOrigin EXCEPT ![g.generated] = "selfheal"]
    /\ UNCHANGED <<images, blobs, nextId, held, verdict, ensureCalls, ensureLog,
                   compare, roundTrip>>

NextSlot ==
    \/ \E s \in Slots, u \in Users : EnsureBegin(s, u)
    \/ \E s \in Slots, saveOk \in BOOLEAN : EnsureFinish(s, saveOk)
    \/ \E u \in Users, saveOk \in BOOLEAN : RegenerateKeys(u, saveOk)
    \/ \E u \in Users, saveOk \in BOOLEAN : GenerateInitialKeys(u, saveOk)
    \/ \E u \in Users : DebugUserProfile(u)
    \/ \E u \in Users, saveOk \in BOOLEAN : SaveUserPublicKey(u, saveOk)
    \/ \E sessionUser \in Users, userId \in Users, saveOk \in BOOLEAN :
          SaveUserPublicKeyFor(sessionUser, userId, saveOk)
    \/ \E userId \in Users, sessionUser \in Users,
          fault \in {"none", "profileRead", "keySave"} :
          ResolvePublicKey(userId, sessionUser, fault)

SpecSlot == InitKeys /\ [][NextSlot]_vars

(* ------------------- areHashesSimilar on its own ----------------------- *)

\* Two characters are enough to make positions agree or differ.
HexSample == {0, 15}
\* The strings handed to areHashesSimilar: any length up to MaxHashLen.
HashStrings == UNION {[1..n -> HexSample] : n \in 0..MaxHashLen}

\* verifyImage at the comparison: areHashesSimilar(fileHash, imageByName.hash)
\* and the branch taken on its result.
CompareHashes ==
    /\ compare.route = "pending"
    /\ compare' = [compare EXCEPT
                     !.similar = areHashesSimilar(compare.hash1, compare.hash2),
                     !.route = NameFallbackRoute(compare.hash1, compare.hash2)]
    /\ UNCHANGED <<profiles, images, blobs, nextKey, nextId, held, keyOrigin,
                   verdict, ensureCalls, ensureLog, roundTrip>>

InitHash ==
    /\ profiles = [u \in Users |-> EmptyPublicKey]
    /\ images = {}
    /\ blobs = {}
    /\ nextKey = 1
    /\ nextId = 1
    /\ held = [u \in Users |-> {}]
    /\ keyOrigin = [k \in KeyIds |-> "none"]
    /\ verdict = NoVerdict
    /\ ensureCalls = [s \in {"s1", "s2"} |->
                        [pc |-> "idle", user |-> "", before |-> NoRow,
                         overlapped |-> FALSE]]
    /\ ensureLog = <<>>
    /\ compare \in {[hash1 |-> a, hash2 |-> b, route |-> "pending",
                     similar |-> FALSE] : a \in HashStrings, b \in HashStrings}
    /\ roundTrip = NoRoundTrip

NextHash == CompareHashes

SpecHash == InitHash /\ [][NextHash]_vars

(* ------------------- signFile and verifyFileSignature ------------------ *)

\* The key pairs: the generated ones and the one made outside.
KeyPairs == KeyIds \cup {ExternalKey}

\* signFile(file, privateKey) on the upload page.
SignFile ==
    /\ roundTrip.answer = "unsigned"
    /\ roundTrip' = [roundTrip EXCEPT
                       !.signature = signFile(roundTrip.file, roundTrip.privateKey),
                       !.answer = "signed"]
    /\ UNCHANGED <<profiles, images, blobs, nextKey, nextId, held, keyOrigin,
                   verdict, ensureCalls, ensureLog, compare>>

\* verifyFileSignature(file, signature, publicKey) on the verify page, with
\* the imported public key of some pair.
VerifyFileSignature ==
    /\ roundTrip.answer = "signed"
    /\ roundTrip' = [roundTrip EXCEPT
                       !.answer = IF verifyFileSignature(roundTrip.checked,
                                                         roundTrip.signature,
                                                         roundTrip.publicKey)
                                  THEN "true" ELSE "false"]
    /\ UNCHANGED <<profiles, images, blobs, nextKey, nextId, held, keyOrigin,
                   verdict, ensureCalls, ensureLog, compare>>

InitCrypto ==
    /\ profiles = [u \in Users |-> EmptyPublicKey]
    /\ images = {}
    /\ blobs = {}
    /\ nextKey = 1
    /\ nextId = 1
    /\ held = [u \in Users |-> {}]
    /\ keyOrigin = [k \in KeyIds |-> "none"]
    /\ verdict = NoVerdict
    /\ ensureCalls = [s \in {"s1", "s2"} |->
                        [pc |-> "idle", user |-> "", before |-> NoRow,
                         overlapped |-> FALSE]]
    /\ ensureLog = <<>>
    /\ compare = NoCompare
    /\ roundTrip \in {[file |-> f, privateKey |-> k,
                       signature |-> NoImage.signature, checked |-> g,
                       publicKey |-> exportPublicKey(q), answer |-> "unsigned"] :
                      f \in Files, g \in Files, k \in KeyPairs, q \in KeyPairs}

NextCrypto == SignFile \/ VerifyFileSignature

SpecCrypto == InitCrypto /\ [][NextCrypto]_vars

(* ------------------------------ properties ---------------------------- *)

\* The kind of verdict a result shown by a verify page stands for.
Outcome(v) ==
    CASE v.message = "Image Verified Successfully" -> "Verified"
      [] v.message = "Image Has Been Modified" -> "ContentModified"
      [] v.message = "Signature Verification Failed" -> "SignatureInvalid"
      [] v.message \in {"Image Not Found", "Verification Failed"} -> "NotFound"
      [] v.message = "Verification Error"
         /\ v.details = "The image exists but cannot be verified." -> "KeyUnavailable"
      [] OTHER -> "Error"

\* Whether the verification that produced v made the given call.
Called(v, call) == \E i \in DOMAIN v.calls : v.calls[i] = call

\* Positions below the shorter length in which two fingerprints differ, plus
\* the difference of their lengths.
Distance(h1, h2) ==
    Cardinality({i \in 1..Min(Len(h1), Len(h2)) : h1[i] /= h2[i]})
    + Abs(Len(h1) - Len(h2))

\* The records of the user who asked for the verification that carry the
\* fingerprint, or the file name, of the file verified.
OwnByFingerprint ==
    {r \in images : r.user_id = verdict.user
                    /\ r.hash = calculateFileHash(verdict.file)}
OwnByName ==
    {r \in images : r.user_id = verdict.user /\ r.file_name = verdict.file.name}

\* C1: ownership isolation. For every requesting user and every content of
\* the images table, findImageByHashAction and findImageByFileNameAction
\* return nothing or a record owned by that user, and no result of a
\* verification carries the record or the owner of another user.
C1_OwnershipIsolation ==
    /\ \A u \in Users, file \in Files :
          /\ findImageByHashAction(calculateFileHash(file), u, FALSE).ret.user_id
                \in {"", u}
          /\ findImageByFileNameAction(file.name, u, FALSE).ret.user_id \in {"", u}
    /\ verdict /= NoVerdict =>
          /\ verdict.owner \in {"", verdict.user}
          /\ verdict.recId /= 0 =>
                \E r \in images : r.id = verdict.recId /\ r.user_id = verdict.user

\* A verification found the user's own record while another user stored a
\* record with the same fingerprint and the same file name.
C1_Witness ==
    /\ verdict /= NoVerdict
    /\ verdict.recId /= 0
    /\ verdict.owner = verdict.user
    /\ \E r \in images : /\ r.user_id /= verdict.user
                         /\ r.hash = calculateFileHash(verdict.file)
                         /\ r.file_name = verdict.file.name

\* C2: scenario 1 for any history. If the user owns a record of the file
\* verified (same name, same bytes) whose signature was made with the private
\* half of the public key stored for the user, the verification of the
\* unchanged bytes ends Verified, whatever else was uploaded.
C2_UnchangedBytesVerified ==
    (/\ verdict /= NoVerdict
     /\ verdict.variant = "fingerprintFirst"
     /\ \E r \in OwnByFingerprint :
           /\ r.file_name = verdict.file.name
           /\ r.signature = signFile(verdict.file, verdict.keyBefore.k)
           /\ verdict.keyBefore = exportPublicKey(r.signature.k))
    => Outcome(verdict) = "Verified"

\* C3: fingerprint-first precedence. Every verification looks up by
\* fingerprint first, looks up by name only after the fingerprint lookup
\* returned no record, and reaches a record by name only when the user owns
\* no record with the exact fingerprint of the file.
C3_FingerprintFirst ==
    verdict /= NoVerdict =>
        /\ verdict.calls[1] = "findImageByHash"
        /\ Called(verdict, "findImageByFileName") => verdict.byHash = "miss"
        /\ verdict.byName = "hit" => OwnByFingerprint = {}

\* C4: when the fingerprint lookup misses, the name lookup hits and the
\* fresh fingerprint is more than 5 away from the stored one, the result is
\* ContentModified and the verification neither resolved a public key nor
\* imported one nor verified a signature.
C4_BeyondToleranceIsContentModified ==
    \A r \in images :
        (/\ verdict /= NoVerdict
         /\ verdict.byHash = "miss"
         /\ verdict.byName = "hit"
         /\ r.id = verdict.recId
         /\ Distance(calculateFileHash(verdict.file), r.hash) > 5)
        => /\ Outcome(verdict) = "ContentModified"
           /\ ~Called(verdict, "getUserPublicKey")
           /\ ~Called(verdict, "importPublicKey")
           /\ ~Called(verdict, "verifyFileSignature")
           /\ verdict.generated = 0

\* A file 6 characters away from the record found by its name was verified.
C4_Witness ==
    /\ verdict /= NoVerdict
    /\ verdict.byHash = "miss"
    /\ verdict.byName = "hit"
    /\ Outcome(verdict) = "ContentModified"
    /\ \E r \in images :
          /\ r.id = verdict.recId
          /\ Distance(calculateFileHash(verdict.file), r.hash) = 6

\* C5: areHashesSimilar(h1, h2) is true exactly when the number of positions
\* below the shorter length in which h1 and h2 differ, plus the difference
\* of their lengths, is at most 5; the comparison routes to the signature
\* check exactly then (5 differences do, 6 do not).
C5_SimilarIffWithinTolerance ==
    compare.route \notin {"none", "pending"} =>
        /\ compare.similar <=> Distance(compare.hash1, compare.hash2) <= 5
        /\ compare.route = "SignatureCheck"
              <=> Distance(compare.hash1, compare.hash2) <= 5
        /\ compare.route = "ContentModified"
              <=> Distance(compare.hash1, compare.hash2) >= 6

\* Two fingerprints of the same length that differ in exactly 5 positions
\* were compared and routed to the signature check.
C5_Witness ==
    /\ compare.route = "SignatureCheck"
    /\ compare.similar
    /\ Len(compare.hash1) = Len(compare.hash2)
    /\ Distance(compare.hash1, compare.hash2) = 5

\* C6: a verification ends NotFound if and only if the requesting user owns
\* no record with the fingerprint of the file and no record with its name,
\* however many matching records the user owns.
C6_NotFoundIffNoRecord ==
    verdict /= NoVerdict =>
        (Outcome(verdict) = "NotFound" <=> (OwnByFingerprint = {} /\ OwnByName = {}))

\* C7: scenario 4. When a record of the requesting user is found by exact
\* fingerprint and no public key was ever stored for the user, the
\* verification ends KeyUnavailable.
C7_KeyUnavailableWhenSlotEmpty ==
    (/\ verdict /= NoVerdict
     /\ verdict.variant = "fingerprintFirst"
     /\ verdict.byHash = "hit"
     /\ verdict.keyBefore \in {NoRow, EmptyPublicKey})
    => Outcome(verdict) = "KeyUnavailable"

\* C8: after a successful regenerateKeysAction for a user, the verification
\* of an image the user signed under the previous key ends SignatureInvalid.
C8_RegeneratedKeyInvalidates ==
    (/\ verdict /= NoVerdict
     /\ verdict.keyBefore.t = "spki"
     /\ keyOrigin[verdict.keyBefore.k] = "regenerate"
     /\ \E r \in OwnByFingerprint :
           /\ r.file_name = verdict.file.name
           /\ r.signature.k \in KeyIds \ {verdict.keyBefore.k})
    => Outcome(verdict) = "SignatureInvalid"

\* C9: of two ensurePublicKeyAction calls for the same user that both read
\* the profile before either wrote it, the later to return does not
\* overwrite the key the earlier stored and returns no private key.
C9_OneGenerationWins ==
    \A i, j \in DOMAIN ensureLog :
        (/\ i < j
         /\ ensureLog[i].user = ensureLog[j].user
         /\ ensureLog[i].overlapped /\ ensureLog[j].overlapped
         /\ ensureLog[i].before \in {NoRow, EmptyPublicKey}
         /\ ensureLog[j].before \in {NoRow, EmptyPublicKey}
         /\ ensureLog[i].success /\ ensureLog[j].success)
        => /\ ensureLog[j].privateKey = 0
           /\ ensureLog[j].after = ensureLog[i].after

\* C10: scenario 5. Of two ensurePublicKeyAction calls run one after the
\* other for a user with no stored public key, the first generates a pair,
\* stores the public half and returns the private half; the second generates
\* nothing, returns no private key, reports that the key exists and leaves
\* the stored key as the first stored it.
C10_SequentialEnsure ==
    \A i, j \in DOMAIN ensureLog :
        (/\ j = i + 1
         /\ ensureLog[i].user = ensureLog[j].user
         /\ ~ensureLog[i].overlapped /\ ~ensureLog[j].overlapped
         /\ ensureLog[i].before \in {NoRow, EmptyPublicKey}
         /\ ensureLog[i].success)
        => /\ ensureLog[i].privateKey /= 0
           /\ ensureLog[i].after = exportPublicKey(ensureLog[i].privateKey)
           /\ ensureLog[j].before = ensureLog[i].after
           /\ ensureLog[j].privateKey = 0
           /\ ensureLog[j].success /\ ensureLog[j].publicKeyExists
           /\ ensureLog[j].after = ensureLog[i].after
           /\ profiles[ensureLog[i].user] = ensureLog[i].after

\* Two calls for one user returned one after the other: the first generated
\* a pair for a user without a key, the second found the key.
C10_Witness ==
    /\ Len(ensureLog) = 2
    /\ ensureLog[1].user = ensureLog[2].user
    /\ ~ensureLog[1].overlapped /\ ~ensureLog[2].overlapped
    /\ ensureLog[1].before \in {NoRow, EmptyPublicKey}
    /\ ensureLog[1].privateKey /= 0
    /\ ensureLog[2].publicKeyExists
    /\ ensureLog[2].privateKey = 0

\* C11: ensurePublicKeyAction never reports the placeholder seeded by
\* handle_new_user as an existing key: a call that read the placeholder
\* generates a pair and replaces the stored text.
C11_PlaceholderAlwaysReplaced ==
    \A i \in DOMAIN ensureLog :
        (ensureLog[i].before = DefaultPublicKey /\ ensureLog[i].success)
        => /\ ensureLog[i].privateKey /= 0
           /\ ensureLog[i].after = exportPublicKey(ensureLog[i].privateKey)

\* C12: once the key slot of a user holds a real key, only
\* regenerateKeysAction changes it: every step that changes a stored real
\* key stores a key generated by a regeneration.
C12_OnlyRegenerateReplacesRealKey ==
    [][\A u \in Users :
          (profiles[u].t = "spki" /\ profiles'[u] /= profiles[u])
          => /\ profiles'[u].t = "spki"
             /\ keyOrigin'[profiles'[u].k] = "regenerate"]_vars

C15_NoServerSidePrivateKey ==
    \A k \in KeyIds : keyOrigin[k] \in {"none", "register"}

\* Whether a step of the verification that produced v threw: the hashing, a
\* record lookup, the key retrieval or the import (a verification that asked
\* for the key and never reached the signature check), the signature check.
StepFailed(v) ==
    \/ v.fault = "hash"
    \/ v.byHash = "threw"
    \/ v.byName = "threw"
    \/ Called(v, "getUserPublicKey") /\ ~Called(v, "verifyFileSignature")
    \/ v.fault = "signature" /\ Called(v, "verifyFileSignature")

\* C16: fails closed. A verification in which a step threw (hashing, record
\* lookup, key retrieval, key import or signature check) still ends with a
\* result, and that result is an error verdict with isVerified = false,
\* never a verified one.
C16_FailsClosed ==
    StepFailed(verdict)
    => /\ verdict /= NoVerdict
       /\ Outcome(verdict) = "Error"
       /\ ~verdict.isVerified

\* A record was found by its fingerprint, its owner's key was retrieved and
\* the import of that key threw: the inner catch of the verify page set the
\* result.
C16_Witness ==
    /\ verdict.variant = "fingerprintFirst"
    /\ verdict.byHash = "hit"
    /\ Called(verdict, "importPublicKey")
    /\ ~Called(verdict, "verifyFileSignature")
    /\ verdict.message = "Key Verification Error"

\* The record a result was decided on.
RecordOf(v) == {r \in images : r.id = v.recId}

\* C17: the "minor differences" note. A verified result carries the note
\* exactly when the fingerprint of the file verified differs from the one
\* stored in the record it was verified against: with a tolerated mismatch
\* always, with an exact fingerprint match never.
C17_MinorNoteIffMismatch ==
    Outcome(verdict) = "Verified"
    => \A r \in RecordOf(verdict) :
          verdict.minor <=> (calculateFileHash(verdict.file) /= r.hash)

\* C18: rollback of the blob. An upload whose blob was stored and whose
\* metadata insert failed removes the blob again before it reports the
\* failure, whenever the removal itself succeeds.
C18_BlobRolledBack ==
    [][\A u \in Users, file \in Files, k \in KeyIds \cup {ExternalKey} :
          (\/ HandleUpload(u, file, k, "metadata")
           \/ UploadImage(u, file, k, "metadata")
           \/ \E attempts \in [1..maxUploadAttempts -> AttemptResults] :
                 /\ \E i \in 1..maxUploadAttempts : attempts[i] = "ok"
                 /\ UploadImageWithRetry(u, file, k, attempts, "metadata", TRUE))
          => blobs' = blobs]_vars

\* C19: no partial record. Every images row an upload inserts carries a
\* signature made over the file uploaded and points to a blob that the
\* storage holds; an upload that stored no blob inserts no row.
C19_RecordOnlyAfterBlobAndSignature ==
    [][/\ \A r \in images' \ images :
             /\ r.file_path \in blobs'
             /\ \E file \in Files, k \in KeyIds \cup {ExternalKey} :
                   /\ r.file_name = file.name
                   /\ r.hash = calculateFileHash(file)
                   /\ r.signature = signFile(file, k)
       /\ blobs' = blobs => images' = images]_vars

\* The part of it that holds: handleUpload and the uploadImage of
\* supabase-utils insert a row only in a call that stored its blob.
PageUploadsInsertAfterBlob ==
    [][\A u \in Users, file \in Files, k \in KeyIds \cup {ExternalKey},
         outcome \in {"ok", "keySave", "sign", "storage", "metadata",
                      "abandoned"} :
          (HandleUpload(u, file, k, outcome) \/ UploadImage(u, file, k, outcome))
          => /\ \A r \in images' \ images : r.file_path \in blobs' \ blobs
             /\ blobs' = blobs => images' = images]_vars

\* The stored key of the record's owner was retrieved and its import threw,
\* with no other failure in the verification.
MalformedKeyCase(v) ==
    /\ v.fault = "none"
    /\ Called(v, "importPublicKey")
    /\ ~Called(v, "verifyFileSignature")

\* The verification of user u asked for a key while the slot of the
\* record's owner (u, by the ownership filter) held none; the only failure
\* let in is that of the write of the self-healing generation.
MissingKeyCase(v, u) ==
    /\ v.fault \in {"none", "keySave"}
    /\ Called(v, "getUserPublicKey")
    /\ ~HasPublicKey(profiles[u])

\* C20: broken is told apart from missing. A verification that meets a
\* stored key failing to import and a verification that meets no stored key
\* never end in the same kind of verdict.
C20_MalformedDistinctFromMissing ==
    \A a, b \in Users, fa, fb \in Files, fault \in {"none", "keySave"} :
        LET va == VerifyFingerprintFirst(a, fa, "none", FALSE)
            vb == VerifyFingerprintFirst(b, fb, fault, TRUE)
        IN  (MalformedKeyCase(va) /\ MissingKeyCase(vb, b))
            => Outcome(va) /= Outcome(vb)

Fixed(r) == <<r.id, r.user_id, r.file_name, r.hash, r.signature, r.file_path>>

\* C22: records are immutable. In every step each record either keeps its
\* owner, file name, fingerprint, signature and storage path or is removed,
\* and it is removed only by a deletion of that record by its owner; a step
\* that sets a verification result changes neither the images table nor
\* the storage.
C22_RecordsImmutable ==
    [][/\ \A r \in images :
             \/ \E r2 \in images' : Fixed(r2) = Fixed(r)
             \/ /\ \A r2 \in images' : r2.id /= r.id
                /\ DeleteImage(r.user_id, r.id, "ok")
       /\ (verdict' /= verdict /\ verdict' /= NoVerdict)
          => images' = images /\ blobs' = blobs]_vars

\* A record whose URL was refreshed is shown with a verification result
\* that was decided on it, while another record has been deleted.
C22_Witness ==
    /\ verdict.recId /= 0
    /\ \E r \in images :
          r.id = verdict.recId /\ r.public_url /= getPublicUrl("base", r.file_path)
    /\ Cardinality(images) < nextId - 1

\* C23: no raw error text. When a verification fails on an error of the
\* record store or the key store, the details of the result shown are a
\* fixed text, not the message of the error that was thrown.
C23_GenericErrorDetails ==
    (/\ verdict.fault \in {"hashLookup", "nameLookup", "profileRead", "keySave"}
     /\ StepFailed(verdict))
    => verdict.details /= "error.message"

C25_VerifiedOnlyBySignature ==
    Outcome(verdict) = "Verified"
    => \E r \in RecordOf(verdict) :
          /\ verifyFileSignature(verdict.file, r.signature, profiles[r.user_id])
          /\ r.signature.digest = r.hash
             => calculateFileHash(verdict.file) = r.hash

\* A file whose fingerprint differs from the stored one within the
\* tolerance was found by name, its signature was checked under the key of
\* the pair that signed the record, and the check failed.
C25_Witness ==
    /\ verdict.byName = "hit"
    /\ Called(verdict, "verifyFileSignature")
    /\ Outcome(verdict) = "SignatureInvalid"
    /\ \E r \in RecordOf(verdict) :
          /\ Distance(calculateFileHash(verdict.file), r.hash) \in 1..Tolerance
          /\ profiles[r.user_id] = exportPublicKey(r.signature.k)

\* C26: no generated key without its private half. Whenever the public half
\* of a generated pair is stored for a user, the private half of that pair
\* was delivered to that user.
C26_PrivateKeyDelivered ==
    \A u \in Users, k \in KeyIds :
        (keyOrigin[k] /= "none" /\ profiles[u] = exportPublicKey(k))
        => k \in held[u]

\* C27: a slot is written for its own user only. Every step that changes
\* the stored key of a user is an operation running in the session of that
\* user: an ensurePublicKeyAction, a regeneration, an initial generation,
\* the saving of the key at that user's registration, or a
\* getUserPublicKeyAction healing the slot of its session user.
C27_SlotWrittenForOwnUser ==
    [][\A u \in Users :
          profiles'[u] /= profiles[u]
          => \/ \E s \in Slots, saveOk \in BOOLEAN :
                   EnsureFinish(s, saveOk) /\ ensureCalls[s].user = u
             \/ \E saveOk \in BOOLEAN : RegenerateKeys(u, saveOk)
             \/ \E saveOk \in BOOLEAN : GenerateInitialKeys(u, saveOk)
             \/ \E saveOk \in BOOLEAN : SaveUserPublicKey(u, saveOk)
             \/ \E userId \in Users, fault \in {"none", "profileRead", "keySave"} :
                   ResolvePublicKey(userId, u, fault)]_vars

\* C28: no record without its blob. Every row of the images table points to
\* a blob that the storage holds.
C28_EveryRecordHasBlob ==
    \A r \in images : r.file_path \in blobs

\* C29: the retries of uploadImage. The storage upload is tried at most
\* three times and not again after the first attempt that stores the file;
\* when no attempt stored it, by returned errors or by throws, the call
\* inserts no record.
C29_NoInsertWithoutUpload ==
    [][\A u \in Users, file \in Files, k \in KeyPairs,
         attempts \in [1..maxUploadAttempts -> AttemptResults],
         outcome \in {"ok", "publicUrl", "metadata"}, cleanupOk \in BOOLEAN :
          UploadImageWithRetry(u, file, k, attempts, outcome, cleanupOk)
          => LET up == UploadAttempts(attempts, 1, "undefined") IN
             /\ up.made <= maxUploadAttempts
             /\ up.stored <=> \E i \in 1..maxUploadAttempts : attempts[i] = "ok"
             /\ up.stored
                => /\ attempts[up.made] = "ok"
                   /\ \A i \in 1..(up.made - 1) : attempts[i] /= "ok"
             /\ ~up.stored => images' = images]_vars

====
